---------------------------- MODULE Spec2Model ----------------------------
(***************************************************************************)
(* A model of tubesync's sync/models.py: the Source and Media entities.    *)
(*                                                                         *)
(*   - Media.get_download_state: the download lifecycle label of a Media,  *)
(*     derived from its downloaded flag and the job (task) of the queue.   *)
(*                                                                         *)
(*   - Media.get_format_str: the format string handed to the downloader,   *)
(*     from the results of the matcher.                                    *)
(*   - Source.extension and Media.filename: the synthesized file name.     *)
(*                                                                         *)
(*   - Source.index_media: the flattening of nested playlists.             *)
(*                                                                         *)
(*   - Media.download_media: the call of the external downloader.          *)
(*                                                                         *)
(* Python values are modelled as follows.  An optional object (a task     *)
(* argument that may be None) is a sequence of length at most one: None    *)
(* is <<>> and an object t is <<t>>, so that "if task:" is task # <<>>.    *)
(* A string that the code takes apart (a key, a title, a file name) is the *)
(* sequence of its characters.  A call that may raise returns a record     *)
(* [exc, value]: exc names the exception, NoExc when it returned value.    *)
(* A dict is a record; the empty dict, like None and the empty list, is    *)
(* the empty function <<>>, and all three are false in a condition.        *)
(***************************************************************************)
EXTENDS Naturals, Integers, Sequences, FiniteSets, TLC

VARIABLES
    downloaded,     \* Media.downloaded, per Media row
    task,           \* the job of the queue for each Media: None or a task
    state_call,     \* per Media: the last get_download_state call (arguments, result)
    source,         \* the Source row: its download preferences
    formats,        \* Media.formats: the format records of the Media's metadata
    format_str,     \* what get_format_str returned for the current source and formats
    key,            \* Media.key
    title,          \* the title in the Media's metadata
    upload_date,    \* the upload_date string in the Media's metadata
    media_file,     \* Media.media_file.name, empty when no file is stored
    extension_ret,  \* what Source.extension returned or raised
    filename_ret,   \* what Media.filename returned or raised
    key2,           \* the key of a second Media of the same Source
    filename2_ret,  \* what the second Media's filename returned or raised
    source_type,    \* Source.source_type
    response,       \* what the indexer returned to index_media
    index_ret,      \* what Source.index_media returned or raised
    source2,        \* a second Source row
    ret2,           \* what get_format_str, extension and filename gave for source2
    dm_pc,          \* the position of the download_media call
    dm_format_str,  \* download_media's local format_str
    downloader_calls, \* the invocations of the external downloader, in order
    download_ret    \* what download_media returned or raised

stateVars == <<downloaded, task, state_call>>

formatVars == <<source, formats, format_str>>

fileVars == <<key, title, upload_date, media_file, extension_ret, filename_ret,
              key2, filename2_ret>>

indexVars == <<source_type, response, index_ret>>

pairVars == <<source2, ret2>>

downloadVars == <<dm_pc, dm_format_str, downloader_calls, download_ret>>

nonStateVars == <<formatVars, fileVars, indexVars, pairVars, downloadVars>>

nonFormatVars == <<stateVars, fileVars, indexVars, pairVars, downloadVars>>

\* The filename synthesis reads the Source's preferences as well.
nonFileVars == <<stateVars, formats, format_str, indexVars, pairVars, downloadVars>>

nonIndexVars == <<stateVars, formatVars, fileVars, pairVars, downloadVars>>

vars == <<downloaded, task, state_call, source, formats, format_str,
          key, title, upload_date, media_file, extension_ret, filename_ret,
          key2, filename2_ret, source_type, response, index_ret,
          source2, ret2, dm_pc, dm_format_str, downloader_calls, download_ret>>

None == <<>>

Some(x) == <<x>>

(***************************************************************************)
(* Bounds.                                                                 *)
(***************************************************************************)
NumMedia == 2

\* The largest number of formats in a Media's metadata.
MaxFormats == 3

\* The number of characters of a Media key that vary.
MaxKeyVar == 2

\* The depth of playlists nested in an indexer response, and the largest
\* number of entries of one playlist.
MaxDepth == 3

MaxEntries == 2

MediaIds == 1..NumMedia

(***************************************************************************)
(* Media.STATE_* (models.py 404-410).                                      *)
(***************************************************************************)
STATE_UNKNOWN == "unknown"

STATE_SCHEDULED == "scheduled"

STATE_DOWNLOADING == "downloading"

STATE_DOWNLOADED == "downloaded"

STATE_ERROR == "error"

STATES == {STATE_UNKNOWN, STATE_SCHEDULED, STATE_DOWNLOADING, STATE_DOWNLOADED,
           STATE_ERROR}

(***************************************************************************)
(* A task of the job queue, as get_download_state reads it: the answers of *)
(* task.locked_by_pid_running() and task.has_error().                      *)
(***************************************************************************)
Tasks == [locked_by_pid_running : BOOLEAN, has_error : BOOLEAN]

OptTasks == {None} \cup {Some(t) : t \in Tasks}

(***************************************************************************)
(* Mutants of get_download_state: the job consulted before the downloaded  *)
(* flag; the error check before the running check; the two final labels    *)
(* swapped.                                                                *)
(***************************************************************************)
get_download_state_task_first(self_downloaded, t) ==
    IF t # None
    THEN IF t[1].locked_by_pid_running THEN STATE_DOWNLOADING
         ELSE IF t[1].has_error THEN STATE_ERROR
         ELSE STATE_SCHEDULED
    ELSE IF self_downloaded THEN STATE_DOWNLOADED
    ELSE STATE_UNKNOWN

get_download_state_error_first(self_downloaded, t) ==
    IF self_downloaded THEN STATE_DOWNLOADED
    ELSE IF t # None
    THEN IF t[1].has_error THEN STATE_ERROR
         ELSE IF t[1].locked_by_pid_running THEN STATE_DOWNLOADING
         ELSE STATE_SCHEDULED
    ELSE STATE_UNKNOWN

get_download_state_labels_swapped(self_downloaded, t) ==
    IF self_downloaded THEN STATE_DOWNLOADED
    ELSE IF t # None
    THEN IF t[1].locked_by_pid_running THEN STATE_DOWNLOADING
         ELSE IF t[1].has_error THEN STATE_ERROR
         ELSE STATE_UNKNOWN
    ELSE STATE_SCHEDULED

(***************************************************************************)
(* Media.get_download_state(self, task=None) (models.py 705-715).          *)
(***************************************************************************)
get_download_state(self_downloaded, t) ==
    IF self_downloaded THEN STATE_DOWNLOADED
    ELSE IF t # None
    THEN IF t[1].locked_by_pid_running THEN STATE_DOWNLOADING
         ELSE IF t[1].has_error THEN STATE_ERROR
         ELSE STATE_SCHEDULED
    ELSE STATE_UNKNOWN

(***************************************************************************)
(* Source: the closed enumerations of the preferences (models.py 36-94).   *)
(***************************************************************************)
SOURCE_RESOLUTION_360P == "360p"

SOURCE_RESOLUTION_720P == "720p"

SOURCE_RESOLUTION_1080P == "1080p"

SOURCE_RESOLUTION_AUDIO == "audio"

RESOLUTION_MAP ==
    [r \in {"360p", "480p", "720p", "1080p", "1440p", "2160p", "4320p"} |->
        CASE r = "360p" -> 360
          [] r = "480p" -> 480
          [] r = "720p" -> 720
          [] r = "1080p" -> 1080
          [] r = "1440p" -> 1440
          [] r = "2160p" -> 2160
          [] r = "4320p" -> 4320]

SOURCE_VCODEC_AVC1 == "AVC1"

SOURCE_VCODEC_VP9 == "VP9"

SOURCE_VCODECS == {SOURCE_VCODEC_AVC1, SOURCE_VCODEC_VP9}

SOURCE_VCODECS_PRIORITY == <<SOURCE_VCODEC_VP9, SOURCE_VCODEC_AVC1>>

SOURCE_ACODEC_MP4A == "MP4A"

SOURCE_ACODEC_OPUS == "OPUS"

SOURCE_ACODECS == {SOURCE_ACODEC_MP4A, SOURCE_ACODEC_OPUS}

SOURCE_ACODEC_PRIORITY == <<SOURCE_ACODEC_OPUS, SOURCE_ACODEC_MP4A>>

FALLBACK_FAIL == "f"

FALLBACK_NEXT_BEST == "n"

FALLBACK_NEXT_BEST_HD == "h"

FALLBACKS == {FALLBACK_FAIL, FALLBACK_NEXT_BEST, FALLBACK_NEXT_BEST_HD}

\* Source.name as the user entered it: "My_Tube 1".
SourceName == <<"M", "y", "_", "T", "u", "b", "e", " ", "1">>

\* A new Source: the defaults of its preference fields (models.py 194-235).
DefaultSource ==
    [source_resolution |-> SOURCE_RESOLUTION_1080P,
     source_vcodec |-> SOURCE_VCODEC_VP9,
     source_acodec |-> SOURCE_ACODEC_OPUS,
     prefer_60fps |-> TRUE,
     prefer_hdr |-> FALSE,
     fallback |-> FALLBACK_NEXT_BEST_HD,
     name |-> SourceName]

\* Source.is_audio (models.py 253-255).
is_audio(self) == self.source_resolution = SOURCE_RESOLUTION_AUDIO

\* Source.is_video (models.py 257-259).
is_video(self) == ~is_audio(self)

\* Source.source_resolution_height (models.py 319-321).
source_resolution_height(self) ==
    IF self.source_resolution \in DOMAIN RESOLUTION_MAP
    THEN RESOLUTION_MAP[self.source_resolution]
    ELSE 0

\* Source.can_fallback (models.py 323-325).
can_fallback(self) == self.fallback # FALLBACK_FAIL

(***************************************************************************)
(* Python's False where a string is expected (get_format_str returns a     *)
(* format string or False; the matcher returns a format code or False).    *)
(* It is a value no format code equals; "if x:" is Truthy(x).              *)
(***************************************************************************)
False == "False"

Truthy(x) == x # False /\ x # ""

(***************************************************************************)
(* The formats a Media's metadata may list, as iter_formats yields them:   *)
(* format code, stream kind, height, codecs, fps, HDR flag, bitrate.       *)
(***************************************************************************)
KIND_COMBINED == "combined"

KIND_VIDEO == "video-only"

KIND_AUDIO == "audio-only"

Fmt(id, kind, height, vcodec, acodec, fps, hdr, abr) ==
    [id |-> id, kind |-> kind, height |-> height, vcodec |-> vcodec,
     acodec |-> acodec, fps |-> fps, hdr |-> hdr, abr |-> abr]

FormatUniverse ==
    { Fmt("18",  KIND_COMBINED, 360,  "AVC1", "MP4A", 30, FALSE, 96),
      Fmt("22",  KIND_COMBINED, 720,  "AVC1", "MP4A", 30, FALSE, 192),
      Fmt("45",  KIND_COMBINED, 1080, "VP9",  "OPUS", 60, FALSE, 192),
      Fmt("137", KIND_VIDEO,    1080, "AVC1", "none", 30, FALSE, 0),
      Fmt("248", KIND_VIDEO,    1080, "VP9",  "none", 30, FALSE, 0),
      Fmt("303", KIND_VIDEO,    1080, "VP9",  "none", 60, FALSE, 0),
      Fmt("335", KIND_VIDEO,    1080, "VP9",  "none", 60, TRUE,  0),
      Fmt("243", KIND_VIDEO,    360,  "VP9",  "none", 30, FALSE, 0),
      Fmt("140", KIND_AUDIO,    0,    "none", "MP4A", 0,  FALSE, 128),
      Fmt("250", KIND_AUDIO,    0,    "none", "OPUS", 0,  FALSE, 70),
      Fmt("251", KIND_AUDIO,    0,    "none", "OPUS", 0,  FALSE, 160) }

\* The format codes in their string order.
FormatCodeOrder ==
    <<"137", "140", "18", "22", "243", "248", "250", "251", "303", "335", "45">>

FormatSets == {F \in SUBSET FormatUniverse : Cardinality(F) <= MaxFormats}

(***************************************************************************)
(* The Matcher and the Fallback Resolver (sync/matching.py:                *)
(* get_best_combined_format, get_best_audio_format, get_best_video_format).*)
(* Each returns the pair (matched exactly, format code or False).          *)
(***************************************************************************)
B2N(b) == IF b THEN 1 ELSE 0

Priority(ladder, codec) ==
    IF \E i \in 1..Len(ladder) : ladder[i] = codec
    THEN Len(ladder) + 1 - (CHOOSE i \in 1..Len(ladder) : ladder[i] = codec)
    ELSE 0

\* Earlier format codes rank higher.
CodeRank(id) ==
    Len(FormatCodeOrder) + 1
        - (CHOOSE i \in 1..Len(FormatCodeOrder) : FormatCodeOrder[i] = id)

RECURSIVE LexGreater(_, _)
LexGreater(a, b) ==
    IF a = <<>> \/ b = <<>> THEN FALSE
    ELSE IF Head(a) # Head(b) THEN Head(a) > Head(b)
    ELSE LexGreater(Tail(a), Tail(b))

\* The tie-break of video and combined candidates: fps match, HDR match,
\* codec priority ladders, format code.
VideoRank(src, f) ==
    << B2N(src.prefer_60fps /\ f.fps >= 60),
       B2N(src.prefer_hdr /\ f.hdr),
       Priority(SOURCE_VCODECS_PRIORITY, f.vcodec),
       Priority(SOURCE_ACODEC_PRIORITY, f.acodec),
       CodeRank(f.id) >>

\* The tie-break of audio candidates: higher bitrate, codec priority ladder,
\* format code.
AudioRank(src, f) ==
    << f.abr, Priority(SOURCE_ACODEC_PRIORITY, f.acodec), CodeRank(f.id) >>

\* The tie-break of the candidates of one stream kind.
RankOf(kind, src, f) ==
    IF kind = KIND_AUDIO THEN AudioRank(src, f) ELSE VideoRank(src, f)

\* With the resolution constraint dropped: the closest resolution first.
ByHeight(kind, src, f) == <<f.height>> \o RankOf(kind, src, f)

BestOf(S, kind, src) ==
    CHOOSE f \in S :
        \A g \in S : g = f \/ LexGreater(RankOf(kind, src, f), RankOf(kind, src, g))

BestByHeight(S, kind, src) ==
    CHOOSE f \in S :
        \A g \in S : g = f \/ LexGreater(ByHeight(kind, src, f), ByHeight(kind, src, g))

\* next-best-at-least-hd excludes every candidate with a picture below 720p.
HdOk(src, f) ==
    (src.fallback = FALLBACK_NEXT_BEST_HD) => (f.kind = KIND_AUDIO \/ f.height >= 720)

\* The fallback ladder over the candidates of one stream kind: same
\* resolution with any codec; then the closest resolution at or below the
\* target; then any remaining candidate.
FallbackResolve(src, cands, kind) ==
    LET pool == {f \in cands : HdOk(src, f)}
        target == source_resolution_height(src)
        sameRes == {f \in pool : f.height = target}
        below == {f \in pool : f.height <= target}
    IN  IF ~can_fallback(src) THEN False
        ELSE IF sameRes # {} THEN BestOf(sameRes, kind, src).id
        ELSE IF below # {} THEN BestByHeight(below, kind, src).id
        ELSE IF pool # {} THEN BestOf(pool, kind, src).id
        ELSE False

CombinedCandidates(F) == {f \in F : f.kind = KIND_COMBINED}

ExactCombined(src, F) ==
    {f \in CombinedCandidates(F) :
        /\ f.height = source_resolution_height(src)
        /\ f.vcodec = src.source_vcodec
        /\ f.acodec = src.source_acodec}

get_best_combined_format(src, F) ==
    IF ExactCombined(src, F) # {}
    THEN [match |-> TRUE, format |-> BestOf(ExactCombined(src, F), KIND_COMBINED, src).id]
    ELSE [match |-> FALSE,
          format |-> FallbackResolve(src, CombinedCandidates(F), KIND_COMBINED)]

\* Audio-only tracks; for an audio-only Source with no such track, the
\* combined formats stand in.
AudioCandidates(src, F) ==
    LET pure == {f \in F : f.kind = KIND_AUDIO}
    IN  IF pure = {} /\ is_audio(src) THEN CombinedCandidates(F) ELSE pure

ExactAudio(src, F) ==
    {f \in AudioCandidates(src, F) : f.acodec = src.source_acodec}

get_best_audio_format(src, F) ==
    IF ExactAudio(src, F) # {}
    THEN [match |-> TRUE, format |-> BestOf(ExactAudio(src, F), KIND_AUDIO, src).id]
    ELSE [match |-> FALSE,
          format |-> LET pool == {f \in AudioCandidates(src, F) : HdOk(src, f)}
                     IN  IF can_fallback(src) /\ pool # {}
                         THEN BestOf(pool, KIND_AUDIO, src).id
                         ELSE False]

VideoCandidates(F) == {f \in F : f.kind = KIND_VIDEO}

ExactVideo(src, F) ==
    {f \in VideoCandidates(F) :
        /\ f.height = source_resolution_height(src)
        /\ f.vcodec = src.source_vcodec}

get_best_video_format(src, F) ==
    IF ExactVideo(src, F) # {}
    THEN [match |-> TRUE, format |-> BestOf(ExactVideo(src, F), KIND_VIDEO, src).id]
    ELSE [match |-> FALSE,
          format |-> FallbackResolve(src, VideoCandidates(F), KIND_VIDEO)]

(***************************************************************************)
(* Mutants of get_format_str: the pair written audio first; the audio-only *)
(* branch trying the combined format first.                                *)
(***************************************************************************)
get_format_str_audio_first(src, F) ==
    IF is_audio(src)
    THEN LET audio_format == get_best_audio_format(src, F).format
         IN  IF Truthy(audio_format) THEN audio_format ELSE False
    ELSE LET combined_format == get_best_combined_format(src, F).format
             audio_format == get_best_audio_format(src, F).format
             video_format == get_best_video_format(src, F).format
         IN  IF Truthy(combined_format) THEN combined_format
             ELSE IF Truthy(audio_format) /\ Truthy(video_format)
                  THEN audio_format \o "+" \o video_format
                  ELSE False

get_format_str_no_audio_branch(src, F) ==
    LET combined_format == get_best_combined_format(src, F).format
        audio_format == get_best_audio_format(src, F).format
        video_format == get_best_video_format(src, F).format
    IN  IF Truthy(combined_format) THEN combined_format
        ELSE IF is_audio(src)
             THEN IF Truthy(audio_format) THEN audio_format ELSE False
             ELSE IF Truthy(audio_format) /\ Truthy(video_format)
                  THEN video_format \o "+" \o audio_format
                  ELSE False

(***************************************************************************)
(* Media.get_format_str (models.py 571-594).  str() of a format code, a    *)
(* string already, is that string.                                         *)
(***************************************************************************)
get_format_str(src, F) ==
    IF is_audio(src)
    THEN LET audio_format == get_best_audio_format(src, F).format
         IN  IF Truthy(audio_format) THEN audio_format ELSE False
    ELSE LET combined_format == get_best_combined_format(src, F).format
         IN  IF Truthy(combined_format) THEN combined_format
             ELSE LET audio_format == get_best_audio_format(src, F).format
                      video_format == get_best_video_format(src, F).format
                  IN  IF Truthy(audio_format) /\ Truthy(video_format)
                      THEN video_format \o "+" \o audio_format
                      ELSE False

\* get_format_str has not been called yet.
NotCalled == "not called"

(***************************************************************************)
(* Strings as sequences of characters: the str methods Media.filename      *)
(* uses.                                                                   *)
(***************************************************************************)
\* s[:n]
Take(s, n) == SubSeq(s, 1, IF Len(s) < n THEN Len(s) ELSE n)

\* s.replace(c, r), c one character
RECURSIVE Replace(_, _, _)
Replace(s, c, r) ==
    IF s = <<>> THEN <<>>
    ELSE (IF Head(s) = c THEN r ELSE <<Head(s)>>) \o Replace(Tail(s), c, r)

IsSpace(c) == c \in {" ", "\t"}

RECURSIVE LStrip(_)
LStrip(s) == IF s # <<>> /\ IsSpace(Head(s)) THEN LStrip(Tail(s)) ELSE s

RECURSIVE RStrip(_)
RStrip(s) ==
    IF s # <<>> /\ IsSpace(s[Len(s)]) THEN RStrip(SubSeq(s, 1, Len(s) - 1)) ELSE s

\* s.strip()
Strip(s) == RStrip(LStrip(s))

UpperCase ==
    <<"A", "B", "C", "D", "E", "F", "G", "H", "I", "J", "K", "L", "M",
      "N", "O", "P", "Q", "R", "S", "T", "U", "V", "W", "X", "Y", "Z">>

LowerCase ==
    <<"a", "b", "c", "d", "e", "f", "g", "h", "i", "j", "k", "l", "m",
      "n", "o", "p", "q", "r", "s", "t", "u", "v", "w", "x", "y", "z">>

Digits == <<"0", "1", "2", "3", "4", "5", "6", "7", "8", "9">>

Range(f) == {f[i] : i \in DOMAIN f}

LowerChar(c) ==
    IF c \in Range(UpperCase)
    THEN LowerCase[CHOOSE i \in DOMAIN UpperCase : UpperCase[i] = c]
    ELSE c

\* s.lower()
Lower(s) == [i \in 1..Len(s) |-> LowerChar(s[i])]

\* sep.join(parts)
RECURSIVE Join(_, _)
Join(sep, parts) ==
    IF parts = <<>> THEN <<>>
    ELSE IF Len(parts) = 1 THEN parts[1]
    ELSE parts[1] \o sep \o Join(sep, Tail(parts))

\* The regular expression classes of slugify: \w, and [-\s].
IsWord(c) == c \in Range(UpperCase) \cup Range(LowerCase) \cup Range(Digits) \cup {"_"}

IsDashOrSpace(c) == c = "-" \/ IsSpace(c)

\* re.sub(r'[^\w\s-]', '', s)
RECURSIVE DropNonSlug(_)
DropNonSlug(s) ==
    IF s = <<>> THEN <<>>
    ELSE (IF IsWord(Head(s)) \/ IsDashOrSpace(Head(s)) THEN <<Head(s)>> ELSE <<>>)
         \o DropNonSlug(Tail(s))

RECURSIVE SkipDashOrSpace(_)
SkipDashOrSpace(s) ==
    IF s # <<>> /\ IsDashOrSpace(Head(s)) THEN SkipDashOrSpace(Tail(s)) ELSE s

\* re.sub(r'[-\s]+', '-', s)
RECURSIVE CollapseDashes(_)
CollapseDashes(s) ==
    IF s = <<>> THEN <<>>
    ELSE IF IsDashOrSpace(Head(s))
         THEN <<"-">> \o CollapseDashes(SkipDashOrSpace(Tail(s)))
         ELSE <<Head(s)>> \o CollapseDashes(Tail(s))

\* django.utils.text.slugify on an ASCII string: lower-case, drop what is
\* not a word character, white space or a dash, strip, and turn every run
\* of dashes and white space into one dash.
slugify(value) == CollapseDashes(Strip(DropNonSlug(Lower(value))))

\* os.path.basename(path)
RECURSIVE basename(_)
basename(path) ==
    IF \E i \in DOMAIN path : path[i] = "/"
    THEN basename(Tail(path))
    ELSE path

\* The characters of the values of the Source's preference fields.
Chars(v) ==
    CASE v = "360p" -> <<"3", "6", "0", "p">>
      [] v = "720p" -> <<"7", "2", "0", "p">>
      [] v = "1080p" -> <<"1", "0", "8", "0", "p">>
      [] v = "audio" -> <<"a", "u", "d", "i", "o">>
      [] v = "AVC1" -> <<"A", "V", "C", "1">>
      [] v = "VP9" -> <<"V", "P", "9">>
      [] v = "MP4A" -> <<"M", "P", "4", "A">>
      [] v = "OPUS" -> <<"O", "P", "U", "S">>
      [] v = "AAC" -> <<"A", "A", "C">>

(***************************************************************************)
(* Dates: datetime.strptime(s, '%Y%m%d') on a string of eight characters   *)
(* or of no digits at all, and strftime('%Y-%m-%d').                       *)
(***************************************************************************)
DigitValue(c) == (CHOOSE i \in DOMAIN Digits : Digits[i] = c) - 1

TwoDigits(s) == 10 * DigitValue(s[1]) + DigitValue(s[2])

IsLeap(y) == (y % 4 = 0 /\ y % 100 # 0) \/ y % 400 = 0

DaysIn(y, m) ==
    IF m = 2 THEN (IF IsLeap(y) THEN 29 ELSE 28)
    ELSE IF m \in {4, 6, 9, 11} THEN 30
    ELSE 31

\* None when the string does not parse (ValueError), else the date.
strptime_Ymd(s) ==
    IF /\ Len(s) = 8
       /\ \A i \in DOMAIN s : s[i] \in Range(Digits)
       /\ 100 * TwoDigits(SubSeq(s, 1, 2)) + TwoDigits(SubSeq(s, 3, 4)) >= 1
       /\ TwoDigits(SubSeq(s, 5, 6)) \in 1..12
       /\ TwoDigits(SubSeq(s, 7, 8)) \in
              1..DaysIn(100 * TwoDigits(SubSeq(s, 1, 2)) + TwoDigits(SubSeq(s, 3, 4)),
                        TwoDigits(SubSeq(s, 5, 6)))
    THEN Some([year |-> SubSeq(s, 1, 4), month |-> SubSeq(s, 5, 6),
               day |-> SubSeq(s, 7, 8)])
    ELSE None

strftime_Y_m_d(dateobj) ==
    dateobj.year \o <<"-">> \o dateobj.month \o <<"-">> \o dateobj.day

\* Media.created, set when the row is inserted: 2020-12-11.
Created ==
    [year |-> <<"2", "0", "2", "0">>, month |-> <<"1", "2">>, day |-> <<"1", "1">>]

(***************************************************************************)
(* Results of calls that may raise.                                        *)
(***************************************************************************)
NoExc == "none"

Return(v) == [exc |-> NoExc, value |-> v]

Raise(e) == [exc |-> e, value |-> <<>>]

NoResult == [exc |-> NotCalled, value |-> <<>>]

(***************************************************************************)
(* Mutants of Source.extension: an unknown audio codec falls through to    *)
(* the video container; the two audio containers swapped.                  *)
(***************************************************************************)
extension_soft(self) ==
    IF is_audio(self) /\ self.source_acodec = SOURCE_ACODEC_MP4A
    THEN Return(<<"m", "4", "a">>)
    ELSE IF is_audio(self) /\ self.source_acodec = SOURCE_ACODEC_OPUS
    THEN Return(<<"o", "g", "g">>)
    ELSE Return(<<"m", "k", "v">>)

(***************************************************************************)
(* Source.extension (models.py 261-278).                                   *)
(***************************************************************************)
extension(self) ==
    IF is_audio(self)
    THEN IF self.source_acodec = SOURCE_ACODEC_MP4A THEN Return(<<"m", "4", "a">>)
         ELSE IF self.source_acodec = SOURCE_ACODEC_OPUS THEN Return(<<"o", "g", "g">>)
         ELSE Raise("ValueError")
    ELSE Return(<<"m", "k", "v">>)

(***************************************************************************)
(* Media.title, Media.name, Media.upload_date (models.py 622-644): m is    *)
(* the Media, [key, title, upload_date, media_file], title and upload_date *)
(* being the strings of its metadata ('' when the metadata has none).      *)
(***************************************************************************)
media_title(m) == Strip(m.title)

media_name(m) == IF media_title(m) # <<>> THEN media_title(m) ELSE m.key

media_upload_date(m) == strptime_Ymd(Strip(m.upload_date))

\* The cap of the name and of the key in a file name (models.py 672, 673).
NameCap == 80

KeyCap == 20

\* A mutant of the tag list: the video codec is named for every Source.
filename_fmt_with_vcodec(src) ==
    Join(<<"-">>,
         (IF is_audio(src)
          THEN <<Lower(Chars(src.source_vcodec)), Lower(Chars(src.source_acodec))>>
          ELSE <<Lower(Chars(src.source_resolution)),
                 Lower(Chars(src.source_vcodec)),
                 Lower(Chars(src.source_acodec))>>)
         \o (IF src.prefer_60fps THEN << <<"6", "0", "f", "p", "s">> >> ELSE <<>>)
         \o (IF src.prefer_hdr THEN << <<"h", "d", "r">> >> ELSE <<>>))

\* The dash-joined tag list (models.py 674-685).
filename_fmt(src) ==
    Join(<<"-">>,
         (IF is_audio(src)
          THEN <<Lower(Chars(src.source_acodec))>>
          ELSE <<Lower(Chars(src.source_resolution)),
                 Lower(Chars(src.source_vcodec)),
                 Lower(Chars(src.source_acodec))>>)
         \o (IF src.prefer_60fps THEN << <<"6", "0", "f", "p", "s">> >> ELSE <<>>)
         \o (IF src.prefer_hdr THEN << <<"h", "d", "r">> >> ELSE <<>>))

\* The key segment (models.py 673).
filename_key(m) == Take(Replace(Strip(m.key), "_", <<"-">>), KeyCap)

(***************************************************************************)
(* Media.filename (models.py 663-687).                                     *)
(***************************************************************************)
filename(src, m) ==
    IF m.media_file # <<>> THEN Return(basename(m.media_file))
    ELSE
    LET upload == media_upload_date(m)
        dateobj == IF upload # None THEN upload[1] ELSE Created
        datestr == strftime_Y_m_d(dateobj)
        source_name == Replace(slugify(src.name), "_", <<"-">>)
        name0 == slugify(Replace(Replace(media_name(m), "&", <<"a", "n", "d">>),
                                 "+", <<"a", "n", "d">>))
        name == Take(Replace(name0, "_", <<"-">>), NameCap)
        k == filename_key(m)
        fmt == filename_fmt(src)
        ext == extension(src)
    IN  IF ext.exc # NoExc THEN ext
        ELSE Return(datestr \o <<"_">> \o source_name \o <<"_">> \o name \o <<"_">>
                    \o k \o <<"_">> \o fmt \o <<".">> \o ext.value)

\* The Media rows as created, outside the file name specifications.
FileIdle ==
    /\ key = <<"x">>
    /\ title = <<>>
    /\ upload_date = <<>>
    /\ media_file = <<>>
    /\ extension_ret = NoResult
    /\ filename_ret = NoResult
    /\ key2 = <<"y">>
    /\ filename2_ret = NoResult

(***************************************************************************)
(* Source.SOURCE_TYPES and the keys of Source.INDEXERS (models.py 28-30,   *)
(* 107-110).                                                               *)
(***************************************************************************)
SOURCE_TYPE_YOUTUBE_CHANNEL == "c"

SOURCE_TYPE_YOUTUBE_PLAYLIST == "p"

SOURCE_TYPES == {SOURCE_TYPE_YOUTUBE_CHANNEL, SOURCE_TYPE_YOUTUBE_PLAYLIST}

\* d.get(k, default)
dict_get(d, k, default) == IF k \in DOMAIN d THEN d[k] ELSE default

(***************************************************************************)
(* _recurse_playlists of Source.index_media (models.py 337-350);           *)
(* recurse_entries is its for loop, from the videos collected so far and   *)
(* the entries still to visit.                                             *)
(***************************************************************************)
RECURSIVE recurse_playlists(_)
RECURSIVE recurse_entries(_, _)
recurse_entries(videos, entries) ==
    IF entries = <<>> THEN videos
    ELSE LET entry == Head(entries)
         IN  IF entry = <<>>
             THEN recurse_entries(videos, Tail(entries))
             ELSE IF dict_get(entry, "entries", <<>>) # <<>>
             THEN recurse_entries(videos \o recurse_playlists(entry), Tail(entries))
             ELSE recurse_entries(Append(videos, entry), Tail(entries))

recurse_playlists(playlist) ==
    IF playlist = <<>> THEN <<>>
    ELSE recurse_entries(<<>>, dict_get(playlist, "entries", <<>>))

(***************************************************************************)
(* Source.index_media (models.py 327-352), given what the indexer returns  *)
(* for the Source's url.                                                   *)
(***************************************************************************)
index_media(self_source_type, indexer_response) ==
    IF self_source_type \notin SOURCE_TYPES THEN Raise("Exception")
    ELSE Return(recurse_playlists(indexer_response))

\* The Source as created, outside the indexing specification.
IndexIdle ==
    /\ source_type = SOURCE_TYPE_YOUTUBE_CHANNEL
    /\ response = None
    /\ index_ret = NoResult

(***************************************************************************)
(* Media.url (models.py 372-376, 612-615): the URL format of the Source's  *)
(* type with the key filled in, '' for a type outside Media.URLS.          *)
(***************************************************************************)
UrlPrefix ==
    <<"h", "t", "t", "p", "s", ":", "/", "/", "w", "w", "w", ".", "y", "o", "u",
      "t", "u", "b", "e", ".", "c", "o", "m", "/", "w", "a", "t", "c", "h", "?",
      "v", "=">>

media_url(self_source_type, m) ==
    IF self_source_type \in SOURCE_TYPES THEN UrlPrefix \o m.key ELSE <<>>

\* Source.directory_path (models.py 300-306): the audio or the video
\* directory of the settings.
directory_path(src) ==
    IF src.source_resolution = SOURCE_RESOLUTION_AUDIO
    THEN "DOWNLOAD_AUDIO_DIR" ELSE "DOWNLOAD_VIDEO_DIR"

\* Media.filepath (models.py 689-691).
filepath(src, m) ==
    LET name == filename(src, m)
    IN  IF name.exc # NoExc THEN name
        ELSE Return([directory |-> directory_path(src), filename |-> name.value])

(***************************************************************************)
(* A mutant of download_media: the downloader is invoked whether a format  *)
(* was resolved or not.                                                    *)
(***************************************************************************)
download_media_call_unchecked(self_source_type, src, F, m) ==
    LET fstr == get_format_str(src, F)
        ext == extension(src)
        path == filepath(src, m)
    IN  IF ext.exc # NoExc
        THEN [format_str |-> fstr, ret |-> ext, invoked |-> <<>>]
        ELSE IF path.exc # NoExc
        THEN [format_str |-> fstr, ret |-> path, invoked |-> <<>>]
        ELSE [format_str |-> fstr, ret |-> NoResult,
              invoked |-> << [url |-> media_url(self_source_type, m),
                              format_str |-> fstr,
                              extension |-> ext.value,
                              filepath |-> path.value] >>]

(***************************************************************************)
(* Media.download_media up to the call of the downloader (models.py        *)
(* 721-728): the local format_str, the exception raised if any, and the    *)
(* downloader's invocation with its arguments, evaluated left to right.    *)
(* The message of line 724 reads the name media, which neither the method  *)
(* nor the module binds: building it raises NameError before               *)
(* NoFormatException is constructed.                                       *)
(***************************************************************************)
download_media_call(self_source_type, src, F, m) ==
    LET fstr == get_format_str(src, F)
        ext == extension(src)
        path == filepath(src, m)
    IN  IF ~Truthy(fstr)
        THEN [format_str |-> fstr, ret |-> Raise("NameError"), invoked |-> <<>>]
        ELSE IF ext.exc # NoExc
        THEN [format_str |-> fstr, ret |-> ext, invoked |-> <<>>]
        ELSE IF path.exc # NoExc
        THEN [format_str |-> fstr, ret |-> path, invoked |-> <<>>]
        ELSE [format_str |-> fstr, ret |-> NoResult,
              invoked |-> << [url |-> media_url(self_source_type, m),
                              format_str |-> fstr,
                              extension |-> ext.value,
                              filepath |-> path.value] >>]

\* Media.download_media after the downloader returned (models.py 729-730).
download_media_return(fstr, src) == Return(<<fstr, extension(src).value>>)

\* The Source and Media rows as created, outside the format specification.
FormatIdle ==
    /\ source = DefaultSource
    /\ formats = {}
    /\ format_str = NotCalled

\* Nothing read from a second Source yet.
NoResult2 == [format_str |-> NotCalled, extension |-> NoResult, filename |-> NoResult]

\* The second Source as created, outside the specification of two Sources.
PairIdle ==
    /\ source2 = DefaultSource
    /\ ret2 = NoResult2

\* No download_media call yet.
DownloadIdle ==
    /\ dm_pc = "idle"
    /\ dm_format_str = NotCalled
    /\ downloader_calls = <<>>
    /\ download_ret = NoResult

(***************************************************************************)
(* The download state machine's specification.  The job queue and the      *)
(* download task are the environment: they create, lock, fail and delete   *)
(* the task of a Media and set its downloaded flag; get_download_state is  *)
(* called at any time, with the Media's task or with no task at all (the   *)
(* parameter's default).                                                   *)
(***************************************************************************)
NoCall == [called |-> FALSE, downloaded |-> FALSE, task |-> None,
           result |-> STATE_UNKNOWN]

\* The Media rows as created, with no job in the queue.
StateIdle ==
    /\ downloaded = [m \in MediaIds |-> FALSE]
    /\ task = [m \in MediaIds |-> None]
    /\ state_call = [m \in MediaIds |-> NoCall]

StateInit ==
    /\ StateIdle
    /\ FormatIdle
    /\ FileIdle
    /\ IndexIdle
    /\ PairIdle
    /\ DownloadIdle

\* The queue schedules a download job for the Media.
TaskSchedule(m) ==
    /\ task[m] = None
    /\ task' = [task EXCEPT ![m] =
                    Some([locked_by_pid_running |-> FALSE, has_error |-> FALSE])]
    /\ UNCHANGED <<downloaded, state_call, nonStateVars>>

\* A worker process locks the job and runs it (a failed job is retried with
\* its recorded error kept).
TaskLock(m) ==
    /\ task[m] # None
    /\ ~task[m][1].locked_by_pid_running
    /\ task' = [task EXCEPT ![m] =
                    Some([task[m][1] EXCEPT !.locked_by_pid_running = TRUE])]
    /\ UNCHANGED <<downloaded, state_call, nonStateVars>>

\* The running job fails: the lock is released and the error recorded.
TaskFail(m) ==
    /\ task[m] # None
    /\ task[m][1].locked_by_pid_running
    /\ task' = [task EXCEPT ![m] =
                    Some([locked_by_pid_running |-> FALSE, has_error |-> TRUE])]
    /\ UNCHANGED <<downloaded, state_call, nonStateVars>>

\* The running job completes: the Media is saved as downloaded and the job
\* leaves the queue.
TaskComplete(m) ==
    /\ task[m] # None
    /\ task[m][1].locked_by_pid_running
    /\ downloaded' = [downloaded EXCEPT ![m] = TRUE]
    /\ task' = [task EXCEPT ![m] = None]
    /\ UNCHANGED <<state_call, nonStateVars>>

\* The job is removed from the queue.
TaskDelete(m) ==
    /\ task[m] # None
    /\ task' = [task EXCEPT ![m] = None]
    /\ UNCHANGED <<downloaded, state_call, nonStateVars>>

\* A caller queries the state, passing the Media's task or nothing.
GetDownloadState(m) ==
    \E t \in {None, task[m]} :
        /\ state_call' = [state_call EXCEPT ![m] =
                [called |-> TRUE, downloaded |-> downloaded[m], task |-> t,
                 result |-> get_download_state(downloaded[m], t)]]
        /\ UNCHANGED <<downloaded, task, nonStateVars>>

StateNext ==
    \E m \in MediaIds :
        \/ TaskSchedule(m)
        \/ TaskLock(m)
        \/ TaskFail(m)
        \/ TaskComplete(m)
        \/ TaskDelete(m)
        \/ GetDownloadState(m)

StateSpec == StateInit /\ [][StateNext]_vars

(***************************************************************************)
(* The format selection's specification.  get_format_str is a function of  *)
(* the Source's preferences and the Media's format list: the initial       *)
(* states draw both, and the one action is the call.                       *)
(***************************************************************************)
FormatSources ==
    [source_resolution : {SOURCE_RESOLUTION_AUDIO, SOURCE_RESOLUTION_360P,
                          SOURCE_RESOLUTION_1080P},
     source_vcodec : SOURCE_VCODECS,
     source_acodec : SOURCE_ACODECS,
     prefer_60fps : BOOLEAN,
     prefer_hdr : BOOLEAN,
     fallback : FALLBACKS,
     name : {SourceName}]

FormatInit ==
    /\ source \in FormatSources
    /\ formats \in FormatSets
    /\ format_str = NotCalled
    /\ StateIdle
    /\ FileIdle
    /\ IndexIdle
    /\ PairIdle
    /\ DownloadIdle

GetFormatStr ==
    /\ format_str = NotCalled
    /\ format_str' = get_format_str(source, formats)
    /\ UNCHANGED <<source, formats, nonFormatVars>>

FormatNext == GetFormatStr

FormatSpec == FormatInit /\ [][FormatNext]_vars

(***************************************************************************)
(* The file name synthesis' specification.  Source.extension and           *)
(* Media.filename are functions of the Source's preferences and of the     *)
(* Media's key, metadata and stored file: the initial states draw them,    *)
(* and the actions are the two property reads.                             *)
(***************************************************************************)
\* An audio codec outside Source.SOURCE_ACODECS (the column is a CharField;
\* its choices are not enforced when a row is saved).
UNKNOWN_ACODEC == "AAC"

FileSources ==
    [source_resolution : {SOURCE_RESOLUTION_AUDIO, SOURCE_RESOLUTION_1080P},
     source_vcodec : SOURCE_VCODECS,
     source_acodec : SOURCE_ACODECS \cup {UNKNOWN_ACODEC},
     prefer_60fps : BOOLEAN,
     prefer_hdr : BOOLEAN,
     fallback : {FALLBACK_NEXT_BEST_HD},
     name : {SourceName}]

KeyAlphabet == {"a", "_", "-", " "}

SeqsUpTo(S, n) == UNION {[1..k -> S] : k \in 0..n}

\* One character short of the cap, so that the varying characters straddle it.
KeyPad == [i \in 1..(KeyCap - 1) |-> "x"]

\* Media keys: up to MaxKeyVar characters, alone or after KeyPad.
Keys == {pad \o suf : pad \in {<<>>, KeyPad}, suf \in SeqsUpTo(KeyAlphabet, MaxKeyVar)}
            \ {<<>>}

Titles == { <<>>, <<" ">>, <<" ", "T", "o", "m", " ", "&", " ", "J", "_", "1", "!", " ">> }

UploadDates == { <<>>, <<"2", "0", "2", "0", "1", "1", "3", "0">> }

MediaFiles == { <<>>, <<"v", "/", "d", "/", "f", ".", "m", "k", "v">> }

Media1 == [key |-> key, title |-> title, upload_date |-> upload_date,
           media_file |-> media_file]

\* The second Media: the same row but for its key.
Media2 == [Media1 EXCEPT !.key = key2]

FileInit ==
    /\ source \in FileSources
    /\ key \in Keys
    /\ title \in Titles
    /\ upload_date \in UploadDates
    /\ media_file \in MediaFiles
    /\ extension_ret = NoResult
    /\ filename_ret = NoResult
    /\ key2 = <<"y">>
    /\ filename2_ret = NoResult
    /\ formats = {}
    /\ format_str = NotCalled
    /\ StateIdle
    /\ IndexIdle
    /\ PairIdle
    /\ DownloadIdle

GetExtension ==
    /\ extension_ret = NoResult
    /\ extension_ret' = extension(source)
    /\ UNCHANGED <<source, key, title, upload_date, media_file, filename_ret,
                   key2, filename2_ret, nonFileVars>>

GetFilename ==
    /\ filename_ret = NoResult
    /\ filename_ret' = filename(source, Media1)
    /\ UNCHANGED <<source, key, title, upload_date, media_file, extension_ret,
                   key2, filename2_ret, nonFileVars>>

FileNext ==
    \/ GetExtension
    \/ GetFilename

FileSpec == FileInit /\ [][FileNext]_vars

(***************************************************************************)
(* Two Media of one Source that differ in their keys alone (the pair       *)
(* (source, key) is unique), neither with a stored file: the initial       *)
(* states draw the Source, the title and the two keys, and the actions     *)
(* read the two file names.                                                *)
(***************************************************************************)
KeySources ==
    {DefaultSource, [DefaultSource EXCEPT !.source_resolution = SOURCE_RESOLUTION_AUDIO]}

KeyInit ==
    /\ source \in KeySources
    /\ key \in Keys
    /\ key2 \in Keys
    /\ key # key2
    /\ title \in Titles
    /\ upload_date = <<>>
    /\ media_file = <<>>
    /\ extension_ret = NoResult
    /\ filename_ret = NoResult
    /\ filename2_ret = NoResult
    /\ formats = {}
    /\ format_str = NotCalled
    /\ StateIdle
    /\ IndexIdle
    /\ PairIdle
    /\ DownloadIdle

GetFilename2 ==
    /\ filename2_ret = NoResult
    /\ filename2_ret' = filename(source, Media2)
    /\ UNCHANGED <<source, key, title, upload_date, media_file, extension_ret,
                   filename_ret, key2, nonFileVars>>

KeyNext ==
    \/ GetFilename
    \/ GetFilename2

KeySpec == KeyInit /\ [][KeyNext]_vars

(***************************************************************************)
(* The indexing specification.  The indexer is the environment: its        *)
(* response, a playlist whose entries are videos, empty entries and        *)
(* playlists nested to MaxDepth, is drawn when index_media calls it.       *)
(***************************************************************************)
VideoEntries == {[id |-> "v1"], [id |-> "v2"]}

RECURSIVE EntriesAt(_)
EntriesAt(depth) ==
    IF depth = 0 THEN VideoEntries \cup {None}
    ELSE VideoEntries \cup {None}
         \cup {[id |-> "PL", entries |-> s] : s \in SeqsUpTo(EntriesAt(depth - 1), MaxEntries)}

Responses ==
    {None} \cup {[id |-> "UC", entries |-> s] : s \in SeqsUpTo(EntriesAt(MaxDepth - 1), MaxEntries)}

IndexInit ==
    /\ source_type \in SOURCE_TYPES \cup {"x"}
    /\ response = None
    /\ index_ret = NoResult
    /\ StateIdle
    /\ FormatIdle
    /\ FileIdle
    /\ PairIdle
    /\ DownloadIdle

IndexMedia ==
    /\ index_ret = NoResult
    /\ \E r \in Responses :
        /\ response' = (IF source_type \in SOURCE_TYPES THEN r ELSE response)
        /\ index_ret' = index_media(source_type, r)
    /\ UNCHANGED <<source_type, nonIndexVars>>

IndexNext == IndexMedia

IndexSpec == IndexInit /\ [][IndexNext]_vars

(***************************************************************************)
(* Two audio-only Sources that differ in their video codec preference      *)
(* alone, and a Media with the same key, metadata and stored file under    *)
(* each: the initial states draw the Sources and the Media, and the        *)
(* actions read get_format_str, extension and filename under the first     *)
(* Source and then under the second.                                       *)
(***************************************************************************)
PairSources ==
    [source_resolution : {SOURCE_RESOLUTION_AUDIO},
     source_vcodec : SOURCE_VCODECS,
     source_acodec : SOURCE_ACODECS \cup {UNKNOWN_ACODEC},
     prefer_60fps : {TRUE},
     prefer_hdr : {FALSE},
     fallback : FALLBACKS,
     name : {SourceName}]

PairInit ==
    /\ source \in PairSources
    /\ source2 \in {[source EXCEPT !.source_vcodec = v] :
                        v \in SOURCE_VCODECS \ {source.source_vcodec}}
    /\ ret2 = NoResult2
    /\ formats \in FormatSets
    /\ format_str = NotCalled
    /\ key = <<"x">>
    /\ title = <<>>
    /\ upload_date = <<>>
    /\ media_file \in MediaFiles
    /\ extension_ret = NoResult
    /\ filename_ret = NoResult
    /\ key2 = <<"y">>
    /\ filename2_ret = NoResult
    /\ StateIdle
    /\ IndexIdle
    /\ DownloadIdle

GetFormatStrOf2 ==
    /\ format_str # NotCalled
    /\ ret2.format_str = NotCalled
    /\ ret2' = [ret2 EXCEPT !.format_str = get_format_str(source2, formats)]
    /\ UNCHANGED <<source2, stateVars, formatVars, fileVars, indexVars, downloadVars>>

GetExtensionOf2 ==
    /\ extension_ret # NoResult
    /\ ret2.extension = NoResult
    /\ ret2' = [ret2 EXCEPT !.extension = extension(source2)]
    /\ UNCHANGED <<source2, stateVars, formatVars, fileVars, indexVars, downloadVars>>

GetFilenameOf2 ==
    /\ filename_ret # NoResult
    /\ ret2.filename = NoResult
    /\ ret2' = [ret2 EXCEPT !.filename = filename(source2, Media1)]
    /\ UNCHANGED <<source2, stateVars, formatVars, fileVars, indexVars, downloadVars>>

PairNext ==
    \/ GetFormatStr
    \/ GetExtension
    \/ GetFilename
    \/ GetFormatStrOf2
    \/ GetExtensionOf2
    \/ GetFilenameOf2

PairSpec == PairInit /\ [][PairNext]_vars

(***************************************************************************)
(* The download specification.  download_media is called once on a Media   *)
(* of a Source; the initial states draw the Source's preferences and the   *)
(* Media's format list.  The downloader is the environment: once invoked   *)
(* it returns, or raises an error that download_media does not handle.     *)
(***************************************************************************)
DownloadSources ==
    [source_resolution : {SOURCE_RESOLUTION_AUDIO, SOURCE_RESOLUTION_1080P},
     source_vcodec : {SOURCE_VCODEC_VP9},
     source_acodec : SOURCE_ACODECS \cup {UNKNOWN_ACODEC},
     prefer_60fps : {TRUE},
     prefer_hdr : {FALSE},
     fallback : FALLBACKS,
     name : {SourceName}]

DownloadInit ==
    /\ source \in DownloadSources
    /\ formats \in FormatSets
    /\ format_str = NotCalled
    /\ DownloadIdle
    /\ StateIdle
    /\ FileIdle
    /\ IndexIdle
    /\ PairIdle

\* download_media is called and runs up to the downloader's invocation.
DownloadMedia ==
    /\ dm_pc = "idle"
    /\ LET c == download_media_call(source_type, source, formats, Media1)
       IN  /\ dm_format_str' = c.format_str
           /\ downloader_calls' = downloader_calls \o c.invoked
           /\ download_ret' = c.ret
           /\ dm_pc' = IF c.invoked # <<>> THEN "downloading" ELSE "done"
    /\ UNCHANGED <<stateVars, formatVars, fileVars, indexVars, pairVars>>

\* The downloader returns: download_media returns the download parameters.
DownloaderReturns ==
    /\ dm_pc = "downloading"
    /\ download_ret' = download_media_return(dm_format_str, source)
    /\ dm_pc' = "done"
    /\ UNCHANGED <<dm_format_str, downloader_calls,
                   stateVars, formatVars, fileVars, indexVars, pairVars>>

\* The downloader raises: the exception leaves download_media.
DownloaderRaises ==
    /\ dm_pc = "downloading"
    /\ download_ret' = Raise("DownloadError")
    /\ dm_pc' = "done"
    /\ UNCHANGED <<dm_format_str, downloader_calls,
                   stateVars, formatVars, fileVars, indexVars, pairVars>>

DownloadNext ==
    \/ DownloadMedia
    \/ DownloaderReturns
    \/ DownloaderRaises

DownloadSpec == DownloadInit /\ [][DownloadNext]_vars

(***************************************************************************)
(* C1: whenever get_download_state has been called on a Media whose        *)
(* downloaded flag was true, whatever job-status changes came before, it   *)
(* returned 'downloaded'; and the job is not consulted: the same call with *)
(* any other task argument (none, running, errored, scheduled) returns the *)
(* same label.                                                             *)
(***************************************************************************)
C1_DownloadedIsDownloaded ==
    \A m \in MediaIds :
        (state_call[m].called /\ state_call[m].downloaded) =>
            /\ state_call[m].result = STATE_DOWNLOADED
            /\ \A t \in OptTasks :
                   get_download_state(state_call[m].downloaded, t)
                       = state_call[m].result

\* A downloaded Media queried with a job that is running and carries an error.
C1_Witness ==
    \E m \in MediaIds :
        /\ state_call[m].called
        /\ state_call[m].downloaded
        /\ state_call[m].task # None
        /\ state_call[m].task[1].locked_by_pid_running
        /\ state_call[m].task[1].has_error
        /\ state_call[m].result = STATE_DOWNLOADED

(***************************************************************************)
(* C2: whenever get_download_state has been called on a Media that was not *)
(* downloaded, with a job that was running, it returned 'downloading',     *)
(* also when that job carried a recorded error.                            *)
(***************************************************************************)
C2_RunningIsDownloading ==
    \A m \in MediaIds :
        ( /\ state_call[m].called
          /\ ~state_call[m].downloaded
          /\ state_call[m].task # None
          /\ state_call[m].task[1].locked_by_pid_running )
        => state_call[m].result = STATE_DOWNLOADING

\* A Media not downloaded, queried with a running job that carries an error.
C2_Witness ==
    \E m \in MediaIds :
        /\ state_call[m].called
        /\ ~state_call[m].downloaded
        /\ state_call[m].task # None
        /\ state_call[m].task[1].locked_by_pid_running
        /\ state_call[m].task[1].has_error
        /\ state_call[m].result = STATE_DOWNLOADING

(***************************************************************************)
(* C3: a call of get_download_state on a Media that was not downloaded     *)
(* returned 'unknown' when no job was passed, 'error' when the job was not *)
(* running and had an error, 'scheduled' when the job was neither running  *)
(* nor errored; and every call returned one of the five labels.            *)
(***************************************************************************)
C3_NotDownloadedLabels ==
    \A m \in MediaIds :
        state_call[m].called =>
            /\ state_call[m].result \in STATES
            /\ ~state_call[m].downloaded =>
                 LET t == state_call[m].task
                     r == state_call[m].result
                 IN  /\ (t = None) => (r = STATE_UNKNOWN)
                     /\ (t # None /\ ~t[1].locked_by_pid_running /\ t[1].has_error)
                            => (r = STATE_ERROR)
                     /\ (t # None /\ ~t[1].locked_by_pid_running /\ ~t[1].has_error)
                            => (r = STATE_SCHEDULED)

\* One Media queried with a failed job, another with a job waiting in the
\* queue, neither of them downloaded.
C3_Witness ==
    \E m1, m2 \in MediaIds :
        /\ state_call[m1].called /\ ~state_call[m1].downloaded
        /\ state_call[m1].task # None
        /\ ~state_call[m1].task[1].locked_by_pid_running
        /\ state_call[m1].task[1].has_error
        /\ state_call[m1].result = STATE_ERROR
        /\ state_call[m2].called /\ ~state_call[m2].downloaded
        /\ state_call[m2].task # None
        /\ ~state_call[m2].task[1].locked_by_pid_running
        /\ ~state_call[m2].task[1].has_error
        /\ state_call[m2].result = STATE_SCHEDULED

(***************************************************************************)
(* C4: for a video Source, get_format_str returned the combined format's   *)
(* code alone whenever bestCombined yields a format; it returned           *)
(* video_code + '+' + audio_code exactly when bestCombined yields none and *)
(* bestVideo and bestAudio both yield a format; and it returned False when *)
(* the combined and either the audio or the video format are missing.      *)
(***************************************************************************)
C4_VideoFormatStr ==
    (format_str # NotCalled /\ is_video(source)) =>
        LET c == get_best_combined_format(source, formats).format
            a == get_best_audio_format(source, formats).format
            v == get_best_video_format(source, formats).format
        IN  /\ Truthy(c) => format_str = c
            /\ (format_str = v \o "+" \o a)
                   <=> (~Truthy(c) /\ Truthy(a) /\ Truthy(v))
            /\ (~Truthy(c) /\ ~(Truthy(a) /\ Truthy(v))) => format_str = False

\* A video Source whose Media has no combined candidate, a video-only and an
\* audio-only one: the pair is returned, video code first.
C4_Witness ==
    /\ source = DefaultSource
    /\ formats = { Fmt("303", KIND_VIDEO, 1080, "VP9", "none", 60, FALSE, 0),
                   Fmt("251", KIND_AUDIO, 0, "none", "OPUS", 0, FALSE, 160) }
    /\ format_str = "303+251"

(***************************************************************************)
(* C5 as amended: for an audio-only Source, get_format_str returned the    *)
(* code of the format chosen by bestAudio, or False when bestAudio yields  *)
(* none; adding or removing a video-only format never changes the result,  *)
(* and adding or removing a combined format does not change it as long as  *)
(* the format list holds an audio-only format.                             *)
(***************************************************************************)
C5_AudioFormatStr ==
    (format_str # NotCalled /\ is_audio(source)) =>
        LET a == get_best_audio_format(source, formats).format
        IN  /\ format_str = (IF Truthy(a) THEN a ELSE False)
            /\ \A f \in FormatUniverse :
                   ( \/ f.kind = KIND_VIDEO
                     \/ /\ f.kind = KIND_COMBINED
                        /\ \E g \in formats : g.kind = KIND_AUDIO )
                   => /\ get_format_str(source, formats \cup {f}) = format_str
                      /\ get_format_str(source, formats \ {f}) = format_str

\* An audio-only Source whose Media lists a combined, a video-only and an
\* audio-only format: the audio-only format's code is returned.
C5_Witness ==
    /\ is_audio(source)
    /\ \E f \in formats : f.kind = KIND_COMBINED
    /\ \E f \in formats : f.kind = KIND_VIDEO
    /\ \E f \in formats : f.kind = KIND_AUDIO /\ format_str = f.id

(***************************************************************************)
(* C5 as stated: for an audio-only Source, get_format_str returned the     *)
(* code of the format chosen by bestAudio, or False; and the presence or   *)
(* absence of any combined or video-only format cannot change the result.  *)
(***************************************************************************)
C5_Original ==
    (format_str # NotCalled /\ is_audio(source)) =>
        LET a == get_best_audio_format(source, formats).format
        IN  /\ format_str = (IF Truthy(a) THEN a ELSE False)
            /\ \A f \in FormatUniverse :
                   f.kind # KIND_AUDIO
                   => /\ get_format_str(source, formats \cup {f}) = format_str
                      /\ get_format_str(source, formats \ {f}) = format_str

(***************************************************************************)
(* C6: whenever the format list holds an exact match for the Source's      *)
(* preferences (an exact audio format for an audio-only Source; an exact   *)
(* combined format, or an exact video-only and an exact audio-only format, *)
(* for a video Source), get_format_str returned an exact match, under      *)
(* every fallback policy.                                                  *)
(***************************************************************************)
ExactFormatStrs(src, F) ==
    IF is_audio(src)
    THEN {f.id : f \in ExactAudio(src, F)}
    ELSE {f.id : f \in ExactCombined(src, F)}
         \cup {v.id \o "+" \o a.id : v \in ExactVideo(src, F), a \in ExactAudio(src, F)}

C6_ExactMatchReturned ==
    (format_str # NotCalled /\ ExactFormatStrs(source, formats) # {})
        => format_str \in ExactFormatStrs(source, formats)

(***************************************************************************)
(* C7: Source.extension returned 'm4a' for an audio-only Source with codec *)
(* MP4A, 'ogg' for an audio-only Source with codec OPUS and 'mkv' for      *)
(* every video Source; it raised (ValueError, no value returned) exactly   *)
(* when the Source is audio-only with another audio codec; and the file    *)
(* name synthesis of a Media with no stored file raised that same error in *)
(* exactly that case, and otherwise returned a name ending in the          *)
(* extension.                                                              *)
(***************************************************************************)
EndsWith(s, t) == Len(s) >= Len(t) /\ SubSeq(s, Len(s) - Len(t) + 1, Len(s)) = t

C7_Extension ==
    LET badAudio == is_audio(source) /\ source.source_acodec \notin SOURCE_ACODECS
        expected == IF is_video(source) THEN <<"m", "k", "v">>
                    ELSE IF source.source_acodec = SOURCE_ACODEC_MP4A
                    THEN <<"m", "4", "a">>
                    ELSE <<"o", "g", "g">>
    IN  /\ extension_ret # NoResult =>
            /\ (extension_ret.exc = "ValueError") <=> badAudio
            /\ (extension_ret.exc # "ValueError") =>
                   extension_ret = [exc |-> NoExc, value |-> expected]
        /\ (filename_ret # NoResult /\ media_file = <<>>) =>
            /\ (filename_ret.exc = "ValueError") <=> badAudio
            /\ badAudio => filename_ret = [exc |-> "ValueError", value |-> <<>>]
            /\ ~badAudio =>
                   /\ filename_ret.exc = NoExc
                   /\ EndsWith(filename_ret.value, <<".">> \o expected)

\* An audio-only Source with an unrecognized audio codec: extension raised,
\* and so did the file name of a Media with no stored file.
C7_Witness ==
    /\ is_audio(source)
    /\ source.source_acodec = UNKNOWN_ACODEC
    /\ media_file = <<>>
    /\ extension_ret = [exc |-> "ValueError", value |-> <<>>]
    /\ filename_ret = [exc |-> "ValueError", value |-> <<>>]

(***************************************************************************)
(* C8: in the synthesized file name of a Media with no stored file, the    *)
(* tag list (between the last '_' and the last '.') is the lower-cased     *)
(* audio codec alone for an audio-only Source, whatever prefer_60fps and   *)
(* prefer_hdr are, and resolution-vcodec-acodec for a video Source,        *)
(* followed by '60fps' when prefer_60fps is set and 'hdr' when prefer_hdr  *)
(* is set.                                                                 *)
(***************************************************************************)
LastIndexOf(s, c) ==
    IF \E i \in DOMAIN s : s[i] = c
    THEN CHOOSE i \in DOMAIN s : s[i] = c /\ \A j \in DOMAIN s : s[j] = c => j <= i
    ELSE 0

TagListOf(name) == SubSeq(name, LastIndexOf(name, "_") + 1, LastIndexOf(name, ".") - 1)

ClaimedTagList(src) ==
    IF is_audio(src) THEN Lower(Chars(src.source_acodec))
    ELSE Lower(Chars(src.source_resolution)) \o <<"-">>
         \o Lower(Chars(src.source_vcodec)) \o <<"-">>
         \o Lower(Chars(src.source_acodec))
         \o (IF src.prefer_60fps THEN <<"-", "6", "0", "f", "p", "s">> ELSE <<>>)
         \o (IF src.prefer_hdr THEN <<"-", "h", "d", "r">> ELSE <<>>)

C8_TagList ==
    (filename_ret # NoResult /\ filename_ret.exc = NoExc /\ media_file = <<>>)
        => TagListOf(filename_ret.value) = ClaimedTagList(source)

(***************************************************************************)
(* C9: two Media of the same Source with no stored file, identical in      *)
(* every file name input but for their keys, which differ, have different  *)
(* synthesized file names.                                                 *)
(***************************************************************************)
C9_DistinctKeysDistinctNames ==
    ( /\ key # key2
      /\ filename_ret # NoResult /\ filename_ret.exc = NoExc
      /\ filename2_ret # NoResult /\ filename2_ret.exc = NoExc )
    => filename_ret.value # filename2_ret.value

(***************************************************************************)
(* C10: for every nested indexer response, index_media returned the flat   *)
(* sequence of exactly the leaf items of the response, depth first in the  *)
(* source order: no returned element is a playlist container, no leaf is   *)
(* dropped or duplicated, and empty entries are skipped.                   *)
(***************************************************************************)
IsContainer(entry) == "entries" \in DOMAIN entry

RECURSIVE LeafItems(_)
LeafItems(entries) ==
    IF entries = <<>> THEN <<>>
    ELSE LET entry == Head(entries)
         IN  (IF entry = None THEN <<>>
              ELSE IF IsContainer(entry) THEN LeafItems(entry.entries)
              ELSE <<entry>>)
             \o LeafItems(Tail(entries))

C10_FlatLeaves ==
    (index_ret # NoResult /\ index_ret.exc = NoExc) =>
        /\ index_ret.value = LeafItems(dict_get(response, "entries", <<>>))
        /\ \A i \in DOMAIN index_ret.value : ~IsContainer(index_ret.value[i])

(***************************************************************************)
(* C11: when the matcher finds no viable format for a Media, both          *)
(* get_format_str and download_media give their caller a no-result value   *)
(* and raise nothing; the only exception of download_media itself is the   *)
(* configuration error of an audio-only Source with an unrecognised audio  *)
(* codec (an error of the downloader, once invoked, is the downloader's).  *)
(***************************************************************************)
ConfigurationError(src) == is_audio(src) /\ src.source_acodec \notin SOURCE_ACODECS

C11_NoViableFormatIsNoResult ==
    dm_pc = "done" =>
        /\ dm_format_str = False \/ Truthy(dm_format_str)
        /\ ~Truthy(dm_format_str) => download_ret.exc = NoExc
        /\ download_ret.exc \notin {NoExc, "DownloadError"} => ConfigurationError(source)

(***************************************************************************)
(* C13: in every execution of download_media the downloader is invoked at  *)
(* most once, and only with the non-empty format string get_format_str     *)
(* returned in that call; when no format is resolved, or the extension     *)
(* cannot be chosen, the downloader is not invoked; and a call that        *)
(* returns, returns the pair of the format string passed to the downloader *)
(* and the Source's extension.                                             *)
(***************************************************************************)
C13_DownloaderInvocation ==
    /\ Len(downloader_calls) <= 1
    /\ downloader_calls # <<>> =>
           /\ dm_pc # "idle"
           /\ Truthy(dm_format_str)
           /\ dm_format_str = get_format_str(source, formats)
           /\ downloader_calls[1].format_str = dm_format_str
    /\ (dm_pc # "idle" /\ (~Truthy(get_format_str(source, formats))
                             \/ extension(source).exc # NoExc)) =>
           /\ downloader_calls = <<>>
           /\ dm_pc = "done"
           /\ download_ret.exc # NoExc
    /\ (dm_pc = "done" /\ download_ret.exc = NoExc) =>
           /\ Len(downloader_calls) = 1
           /\ download_ret.value = <<downloader_calls[1].format_str,
                                     extension(source).value>>

\* A call that resolved a pair of streams, invoked the downloader and returned.
C13_Witness ==
    /\ dm_pc = "done"
    /\ download_ret.exc = NoExc
    /\ Len(downloader_calls) = 1
    /\ downloader_calls[1].format_str = "248+251"
    /\ download_ret.value = <<"248+251", <<"m", "k", "v">> >>

(***************************************************************************)
(* C12: for two audio-only Sources equal in every field but source_vcodec, *)
(* and a Media with the same metadata under each, get_format_str,          *)
(* Source.extension and the synthesized file name give the same result     *)
(* (the same value, or the same exception) under both.                     *)
(***************************************************************************)
C12_VcodecIgnoredForAudio ==
    (/\ is_audio(source)
     /\ is_audio(source2)
     /\ source2 = [source EXCEPT !.source_vcodec = source2.source_vcodec]) =>
        /\ ret2.format_str # NotCalled => ret2.format_str = format_str
        /\ ret2.extension # NoResult => ret2.extension = extension_ret
        /\ ret2.filename # NoResult => ret2.filename = filename_ret

\* All three read under both Sources, the file name synthesized.
C12_Witness ==
    /\ is_audio(source)
    /\ source2 = [source EXCEPT !.source_vcodec = SOURCE_VCODEC_AVC1]
    /\ source.source_vcodec = SOURCE_VCODEC_VP9
    /\ media_file = <<>>
    /\ Truthy(ret2.format_str)
    /\ ret2.format_str = format_str
    /\ ret2.extension = Return(<<"o", "g", "g">>)
    /\ ret2.extension = extension_ret
    /\ ret2.filename.exc = NoExc
    /\ ret2.filename = filename_ret

=============================================================================
